---- MODULE Spec2Model ----
(***************************************************************************)
(* Model of the Generator class of readmebot (src/src/generator.ts).       *)
(*                                                                         *)
(* Representation of text.  A JavaScript string is modelled by the         *)
(* sequence of its lines (what split('\n') returns), so a text is a        *)
(* non-empty sequence of lines and the empty string is << <<>> >>.  A line *)
(* is a sequence of tokens.  The tokens are the single characters " " and  *)
(* "#", and indivisible pieces of text: the marker texts of the two        *)
(* dialects, "#!" (the two characters that open an interpreter            *)
(* directive), the words "x" and "y" (any other text), and the texts the   *)
(* program itself produces ("undefined", the placeholder and the skip      *)
(* message).                                                               *)
(***************************************************************************)
EXTENDS Integers, Sequences, FiniteSets, TLC

\* ------------------------------------------------------------------ bounds
\* Largest number of lines of a text the Summarizer answers with.
MaxSummaryLines == 2

\* ---------------------------------------------------------- text primitives
SP == " "
EmptyLine == <<>>
EmptyString == <<EmptyLine>>
\* What a template literal prints for the value undefined.
Undefined == <<"undefined">>

Min(a, b) == IF a < b THEN a ELSE b
Max(a, b) == IF a > b THEN a ELSE b

\* Array.prototype.indexOf, 0-based, -1 when absent.
IndexOf(lines, l) ==
  IF \E i \in 1..Len(lines) : lines[i] = l
  THEN (CHOOSE i \in 1..Len(lines) :
          lines[i] = l /\ \A j \in 1..(i - 1) : lines[j] # l) - 1
  ELSE -1

\* Array.prototype.slice(start, end) with 0-based, possibly negative, indices.
Slice(lines, start, end) ==
  LET n == Len(lines)
      s == IF start < 0 THEN Max(n + start, 0) ELSE Min(start, n)
      e == IF end < 0 THEN Max(n + end, 0) ELSE Min(end, n)
  IN  IF e <= s THEN <<>> ELSE SubSeq(lines, s + 1, e)

\* Array.prototype.splice(start, deleteCount): the array after the deletion.
Splice(lines, start, deleteCount) ==
  LET n == Len(lines)
      s == IF start < 0 THEN Max(n + start, 0) ELSE Min(start, n)
      d == Min(Max(deleteCount, 0), n - s)
  IN  SubSeq(lines, 1, s) \o SubSeq(lines, s + d + 1, n)

\* Array.prototype.join('\n') followed by reading the result as lines again:
\* the empty array and [''] both give the empty string.
Join(lines) == IF lines = <<>> THEN EmptyString ELSE lines

IsBlank(line) == \A i \in 1..Len(line) : line[i] = SP

\* String.prototype.trim of one line.
TrimLine(line) ==
  IF IsBlank(line) THEN EmptyLine
  ELSE LET a == CHOOSE i \in 1..Len(line) :
                  line[i] # SP /\ \A j \in 1..(i - 1) : line[j] = SP
           b == CHOOSE i \in 1..Len(line) :
                  line[i] # SP /\ \A j \in (i + 1)..Len(line) : line[j] = SP
       IN  SubSeq(line, a, b)

\* String.prototype.trim of a text that may hold line breaks: line breaks are
\* white space too, so leading and trailing blank lines go with them, and only
\* the outer ends of the first and last remaining lines are trimmed.
LTrimLine(line) ==
  LET a == CHOOSE i \in 1..Len(line) :
             line[i] # SP /\ \A j \in 1..(i - 1) : line[j] = SP
  IN  SubSeq(line, a, Len(line))
RTrimLine(line) ==
  LET b == CHOOSE i \in 1..Len(line) :
             line[i] # SP /\ \A j \in (i + 1)..Len(line) : line[j] = SP
  IN  SubSeq(line, 1, b)
Trim(text) ==
  IF \A i \in 1..Len(text) : IsBlank(text[i]) THEN EmptyString
  ELSE LET a == CHOOSE i \in 1..Len(text) :
                  ~IsBlank(text[i]) /\ \A j \in 1..(i - 1) : IsBlank(text[j])
           b == CHOOSE i \in 1..Len(text) :
                  ~IsBlank(text[i]) /\ \A j \in (i + 1)..Len(text) : IsBlank(text[j])
       IN  IF a = b THEN <<TrimLine(text[a])>>
           ELSE <<LTrimLine(text[a])>> \o SubSeq(text, a + 1, b - 1)
                  \o <<RTrimLine(text[b])>>

\* Whether pat occurs in line at 1-based position i.
OccursAt(line, pat, i) ==
  /\ i + Len(pat) - 1 <= Len(line)
  /\ \A k \in 1..Len(pat) : line[i + k - 1] = pat[k]

\* String.prototype.includes on one line.
LineIncludes(line, pat) == \E i \in 1..(Len(line) + 1) : OccursAt(line, pat, i)

\* String.prototype.includes on a whole text, for a pattern without line break.
Includes(text, pat) == \E i \in 1..Len(text) : LineIncludes(text[i], pat)

\* String.prototype.replace(pat, ''): the first occurrence of pat is removed.
ReplaceFirst(line, pat) ==
  IF ~LineIncludes(line, pat) THEN line
  ELSE LET i == CHOOSE i \in 1..(Len(line) + 1) :
                  OccursAt(line, pat, i)
                  /\ \A j \in 1..(i - 1) : ~OccursAt(line, pat, j)
       IN  SubSeq(line, 1, i - 1) \o SubSeq(line, i + Len(pat), Len(line))

\* Concatenation of a sequence of texts, each element contributing its lines
\* (join('\n') of array elements that may themselves hold line breaks).
RECURSIVE Flatten(_)
Flatten(elems) ==
  IF elems = <<>> THEN <<>> ELSE Head(elems) \o Flatten(Tail(elems))

\* ------------------------------------------------------------ the file kinds
\* The project files of the model, one per kind of extension the code tells
\* apart: a comment dialect of each kind, the embed-excluded kind and a kind
\* outside the allow-list.
Paths == {"a.ts", "b.sh", "c.json", "d.png"}

\* path.extname
getFileEnding(filePath) ==
  CASE filePath = "a.ts" -> ".ts"
    [] filePath = "b.sh" -> ".sh"
    [] filePath = "c.json" -> ".json"
    [] filePath = "d.png" -> ".png"

allowedExtensions == {".ts", ".js", ".json", ".tsx", ".jsx", ".yaml", ".yml", ".sh"}
embedExclusionsNone == {}
embedExclusions == {".json"}

TsHeader == <<"/** AUTO-SUMMARY **">>
TsFooter == <<"*** END-SUMMARY **/">>
TsPrefix == <<SP, SP, SP>>
ShHeader == <<"### AUTO-SUMMARY ###">>
ShFooter == <<"### END-SUMMARY ###">>
ShPrefix == <<"#", SP, SP>>

getComponents(filePath) ==
  LET ext == getFileEnding(filePath)
  IN  CASE ext \in {".ts", ".js", ".tsx", ".jsx"} ->
             [header |-> TsHeader, footer |-> TsFooter, prefix |-> TsPrefix]
        [] ext \in {".yaml", ".yml", ".sh"} ->
             [header |-> ShHeader, footer |-> ShFooter, prefix |-> ShPrefix]
        [] OTHER ->
             [header |-> Undefined, footer |-> Undefined, prefix |-> Undefined]

\* ------------------------------------------------------- the block functions
removeSummaryKeepsBlock(fileContent, header, footer) == fileContent
removeSummaryFromFileContent(fileContent, header, footer) ==
  LET lines == fileContent
      headerLine == IndexOf(lines, header)
      footerLine == IndexOf(lines, footer)
  IN  IF headerLine = -1 \/ footerLine = -1 THEN fileContent
      ELSE Join(Splice(lines, headerLine, footerLine - headerLine + 1))

\* /^#!.*/.test(line)
ShebangPattern(line) == Len(line) >= 1 /\ line[1] = "#!"

\* comment is a text; the array element holding it is trimmed as one string,
\* so only its two ends are, and the lines inside it are written as they are.
prefixFileContentOnTop(fileContent, comment) ==
  Flatten([i \in 1..(Len(fileContent) + 1) |->
             Trim(IF i = 1 THEN comment ELSE <<fileContent[i - 1]>>)])
prefixFileContent(fileContent, comment) ==
  LET lines == fileContent
      elems == IF ShebangPattern(lines[1])
               THEN <<(<<lines[1]>> \o comment)>>
                      \o [i \in 1..(Len(lines) - 1) |-> <<lines[i + 1]>>]
               ELSE <<comment>> \o [i \in 1..Len(lines) |-> <<lines[i]>>]
  IN  Flatten([i \in 1..Len(elems) |-> Trim(elems[i])])

regexExtractSummary(filePath, fileContent, header, footer, prefix) ==
  LET lines == fileContent
      headerLine == IndexOf(lines, header)
      footerLine == IndexOf(lines, footer)
      summaryLines == Slice(lines, headerLine + 1, footerLine)
  IN  Join([i \in 1..Len(summaryLines) |-> ReplaceFirst(summaryLines[i], prefix)])

\* The block of line 206: header, one line per line of the summary, footer and
\* a closing line break.
CommentBody(summary, prefix) ==
  [i \in 1..Len(summary) |->
     IF summary[i] = EmptyLine THEN prefix \o summary[i] ELSE EmptyLine]
Comment(header, summary, prefix, footer) ==
  <<header>> \o CommentBody(summary, prefix) \o <<footer, EmptyLine>>

\* ------------------------------------------------------------ the Summarizer
\* The lines a Summarizer answer is made of.
SummaryLines == {<<"x">>, EmptyLine}
RECURSIVE TextsOfLen(_)
TextsOfLen(n) ==
  IF n = 0 THEN {<<>>}
  ELSE {t \o <<l>> : t \in TextsOfLen(n - 1), l \in SummaryLines}
SummaryTexts == UNION {TextsOfLen(n) : n \in 1..MaxSummaryLines}

\* What openai.chat.completions.create resolves to: the request is rejected,
\* the response is a falsy value, it has no choice, its message has no content,
\* or its message has a content.
Responses ==
  [kind : {"rejected", "null", "nochoices", "nocontent"}, content : {EmptyString}]
    \cup [kind : {"content"}, content : SummaryTexts]

\* The response carries a text that is not empty.
Usable(response) ==
  response.kind = "content" /\ Trim(response.content) # EmptyString

NoSummaryProvided == << <<"No summary provided">> >>
SkippedText == << <<"Skipped. File type not supported.">> >>

\* [threw, value]: the promise is rejected, or resolves to value.
getSummaryFromAI(response) ==
  IF response.kind \in {"rejected", "null", "nochoices"}
  THEN [threw |-> TRUE, value |-> EmptyString]
  ELSE IF response.kind = "nocontent" \/ Trim(response.content) = EmptyString
       THEN [threw |-> FALSE, value |-> NoSummaryProvided]
       ELSE [threw |-> FALSE, value |-> Trim(response.content)]

\* --------------------------------------------------------- the cache document
\* A JSON value of the cache document: a string (text is the string) or an
\* object {filePath, summary} (text is its summary property).
JString(s) == [json |-> "string", filePath |-> "", text |-> s]
JObject(p, s) == [json |-> "object", filePath |-> p, text |-> s]

\* capturedSummaries[filePath] && capturedSummaries[filePath].summary
HasCapturedSummary(capturedSummaries, filePath) ==
  /\ filePath \in DOMAIN capturedSummaries
  /\ capturedSummaries[filePath].json = "object"
  /\ capturedSummaries[filePath].text # EmptyString

\* The cache file is [exists, doc]; doc is the parsed document.
EmptyDoc == [k \in {} |-> JString(EmptyString)]
getExistingCapturedSummariesEmpty(cache) == EmptyDoc
getExistingCapturedSummaries(cache) ==
  IF ~cache.exists THEN EmptyDoc ELSE cache.doc

\* ----------------------------------------------------------- summarizeFile
\* The outcome of one call: ret is "result" (a {filePath, summary} object),
\* "undefined" (the function ends without a return) or "throw"; step is the
\* numbered case of the decision policy that answered (0: none of them);
\* content is the file's content after the call.
OutcomeWritesBack(ret, step, summary, content, oracle, wrote) ==
  [ret |-> ret, step |-> step, summary |-> summary, content |-> content,
   read |-> TRUE, oracle |-> oracle, wrote |-> (ret = "result")]
Outcome(ret, step, summary, content, oracle, wrote) ==
  [ret |-> ret, step |-> step, summary |-> summary, content |-> content,
   read |-> TRUE, oracle |-> oracle, wrote |-> wrote]

\* await writeFile(filePath, fileContent): the file holds the new content, or
\* the write is refused (the file cannot be opened for writing), the file is
\* as it was and the promise is rejected.
writeFileUnawaited(fileContent, oldContent, writeOk) ==
  [threw |-> FALSE, content |-> IF writeOk THEN fileContent ELSE oldContent]
writeFile(fileContent, oldContent, writeOk) ==
  [threw |-> ~writeOk, content |-> IF writeOk THEN fileContent ELSE oldContent]

summarizeFile(filePath, fileContent, capturedSummaries, forceFlag, response, writeOk) ==
  LET contentToSummarize == fileContent
      exclude == getFileEnding(filePath) \in embedExclusions
      captured == HasCapturedSummary(capturedSummaries, filePath)
      c == getComponents(filePath)
      ai == getSummaryFromAI(response)
      comment == Comment(c.header, ai.value, c.prefix, c.footer)
  IN  IF getFileEnding(filePath) \notin allowedExtensions
      THEN Outcome("result", 1, SkippedText, fileContent, FALSE, FALSE)
      ELSE IF captured /\ exclude
      THEN Outcome("result", 2, capturedSummaries[filePath].text, fileContent,
                   FALSE, FALSE)
      ELSE IF /\ c.header # Undefined /\ c.footer # Undefined /\ c.prefix # Undefined
              /\ Includes(fileContent, c.header) /\ Includes(fileContent, c.footer)
              /\ ~forceFlag
      THEN Outcome("result", 3,
                   regexExtractSummary(filePath, fileContent, c.header, c.footer,
                                       c.prefix),
                   fileContent, FALSE, FALSE)
      ELSE IF ~captured \/ forceFlag
      THEN IF ai.threw
           THEN Outcome("throw", 4, EmptyString, fileContent, TRUE, FALSE)
           ELSE IF ~exclude
           THEN LET w == writeFile(
                           prefixFileContent(
                             removeSummaryFromFileContent(fileContent, c.header,
                                                          c.footer),
                             comment),
                           fileContent, writeOk)
                IN  IF w.threw
                    THEN Outcome("throw", 4, EmptyString, w.content, TRUE, FALSE)
                    ELSE Outcome("result", 4, ai.value, w.content, TRUE, TRUE)
           ELSE Outcome("result", 4, ai.value, fileContent, TRUE, FALSE)
      ELSE Outcome("undefined", 0, EmptyString, fileContent, FALSE, FALSE)

\* summaries.reduce(...) of compileSummaries: the object written to the cache
\* file, read back as JSON.parse reads what JSON.stringify wrote.
RECURSIVE summaryObject(_)
summaryObject(summaries) ==
  IF summaries = <<>> THEN EmptyDoc
  ELSE LET n == Len(summaries)
           obj == summaryObject(SubSeq(summaries, 1, n - 1))
           filePath == summaries[n].filePath
       IN  [k \in DOMAIN obj \cup {filePath} |->
              IF k = filePath THEN JString(summaries[n].summary) ELSE obj[k]]

\* Whether a line of the content is the header or the footer of the file's
\* dialect.
HasMarkerLine(filePath, fileContent) ==
  LET c == getComponents(filePath)
  IN  IndexOf(fileContent, c.header) # -1 \/ IndexOf(fileContent, c.footer) # -1

\* ------------------------------------------------------------------- state
VARIABLES
  force,        \* this.force of the Generator in use
  files,        \* the project files: path -> content
  cacheFile,    \* ./.autosummary/summary.json: [exists, doc]
  storageDir,   \* whether ./.autosummary exists
  ensureDirPending, \* the ensureDir call of run has not completed yet
  pc,           \* where run is: "idle", "loop", "done", "failed"
  projectFiles, \* the paths getProjectFiles returned to this run
  queue,        \* the paths the loop of summarizeAllFiles has still to visit
  inflight,     \* the summarizeFile calls begun and not completed, each with
                \* what it has read: [path, fileContent, capturedSummaries]
  summaries,    \* the array summarizeAllFiles builds
  files0,       \* history: the content of every file in the initial state
  last          \* history: the latest summarizeFile call

vars == <<force, files, cacheFile, storageDir, ensureDirPending, pc,
          projectFiles, queue, inflight, summaries, files0, last>>

\* The contents a file of a comment dialect may start with: plain code, a
\* file with an interpreter directive (and a space after it), indented code, an indented marker text,
\* a footer line alone, a block written earlier, markers inside longer lines,
\* a footer line before the header line, and a directive followed by a block.
InitialContents(p) ==
  LET c == getComponents(p)
  IN  { << <<"x">> >>,
        << <<"#!", "x", SP>>, <<"x">> >>,
        << <<SP, SP, "x">>, <<"y">> >>,
        << <<SP>> \o c.header, <<"x">> >>,
        << c.footer, <<"x">> >>,
        << c.header, c.prefix \o <<"x">>, c.footer, <<"x">> >>,
        << <<"x", SP>> \o c.header, <<"x", SP>> \o c.footer >>,
        << c.footer, c.header, <<"x">> >>,
        << <<"#!", "x">>, c.header, c.prefix \o <<"y">>, c.footer >> }

PlainContent == << <<"x">> >>

\* The lists getProjectFiles may return, in discovery order.
Discoveries ==
  { <<>>, <<"a.ts">>, <<"b.sh">>, <<"c.json">>, <<"d.png">>,
    <<"a.ts", "b.sh">>, <<"c.json", "d.png">>, <<"c.json", "d.png", "a.ts">> }

InList(p, list) == \E i \in 1..Len(list) : list[i] = p

\* The initial file systems: at most one file, of a comment dialect, holds an
\* initial content other than plain code.
InitialFiles ==
  { [p \in Paths |-> PlainContent] }
    \cup { [p \in Paths |-> IF p = q THEN c ELSE PlainContent] :
             <<q, c>> \in { <<"a.ts", c>> : c \in InitialContents("a.ts") }
                            \cup { <<"b.sh", c>> : c \in InitialContents("b.sh") } }

\* The cache documents the program may find: an empty one, ones in the
\* documented schema, one in the form compileSummaries writes, and one with
\* an empty summary.
InitialDocs ==
  { EmptyDoc,
    [k \in {"c.json"} |-> JObject(k, << <<"y">> >>)],
    [k \in {"a.ts", "c.json"} |-> JObject(k, << <<"y">> >>)],
    [k \in {"a.ts", "c.json"} |-> JString(<< <<"y">> >>)],
    [k \in {"c.json"} |-> JObject(k, EmptyString)] }

NoCall ==
  [path |-> "none", ret |-> "none", step |-> 0, summary |-> EmptyString,
   read |-> FALSE, oracle |-> FALSE, wrote |-> FALSE, force |-> FALSE,
   captured |-> FALSE, entry |-> FALSE, marked |-> FALSE, usable |-> FALSE,
   writeFailed |-> FALSE]

\* The project is in one of the initial file systems, with one of the cache
\* documents or none.  A file with a content other than plain code is the one
\* discovered file.  The discovered list is the same in every run.
Init ==
  /\ force = TRUE
  /\ projectFiles \in Discoveries
  /\ files \in InitialFiles
  /\ \A p \in Paths : files[p] # PlainContent => projectFiles = <<p>>
  /\ \E d \in InitialDocs, e \in BOOLEAN :
       /\ cacheFile = [exists |-> e, doc |-> IF e THEN d ELSE EmptyDoc]
       /\ storageDir \in (IF e THEN {TRUE} ELSE BOOLEAN)
  /\ ensureDirPending = FALSE
  /\ pc = "idle"
  /\ queue = <<>>
  /\ inflight = <<>>
  /\ summaries = <<>>
  /\ files0 = files
  /\ last = NoCall

\* new Generator(options): options.force, true when left out.
Constructor(options) ==
  /\ pc = "idle"
  /\ force' = IF options = "none" THEN TRUE ELSE options = "force"
  /\ force' # force
  /\ UNCHANGED <<files, cacheFile, storageDir, ensureDirPending, pc,
                 projectFiles, queue, inflight, summaries, files0, last>>

\* run, up to the call of getProjectFiles in summarizeAllFiles: ensureDir is
\* started and not awaited.
Run ==
  /\ pc = "idle"
  /\ pc' = "loop"
  /\ ensureDirPending' = TRUE
  /\ queue' = projectFiles
  /\ summaries' = <<>>
  /\ UNCHANGED <<force, files, cacheFile, storageDir, projectFiles, inflight,
                 files0, last>>

\* The ensureDir call completes.
EnsureDirDone ==
  /\ ensureDirPending
  /\ ensureDirPending' = FALSE
  /\ storageDir' = TRUE
  /\ UNCHANGED <<force, files, cacheFile, pc, projectFiles, queue, inflight,
                 summaries, files0, last>>

\* for (const file of projectFiles) { await summarizeFile(file) }: the loop
\* goes on to the next path when the call it awaits has completed.
LoopUnawaited == TRUE
LoopAwaits == inflight = <<>>

\* Where run is after a call: a rejected call rejects summarizeAllFiles and
\* run; no later statement of either is executed.
pcAfterCaught(ret) == "loop"
pcAfter(ret) == IF ret = "throw" THEN "failed" ELSE "loop"

\* One turn of the loop of summarizeAllFiles begins: summarizeFile is called
\* on the next path and reads the file and the cache file (lines 171-173).
SummarizeBegin ==
  /\ pc = "loop"
  /\ queue # <<>>
  /\ LoopAwaits
  /\ inflight' = Append(inflight,
                        [path |-> Head(queue), fileContent |-> files[Head(queue)],
                         capturedSummaries |->
                           getExistingCapturedSummaries(cacheFile)])
  /\ queue' = Tail(queue)
  /\ UNCHANGED <<force, files, cacheFile, storageDir, ensureDirPending, pc,
                 projectFiles, summaries, files0, last>>

\* The call in flight completes: the decision, the answer of the Summarizer
\* and the write of the file, then the push of the result.
SummarizeNext(response, writeOk) ==
  /\ pc = "loop"
  /\ inflight # <<>>
  /\ \E call \in {Head(inflight)} :
     \E o \in {summarizeFile(call.path, call.fileContent, call.capturedSummaries,
                             force, response, writeOk)} :
         /\ files' = [files EXCEPT ![call.path] = o.content]
         /\ last' = [path |-> call.path, ret |-> o.ret, step |-> o.step,
                     summary |-> o.summary, read |-> o.read,
                     oracle |-> o.oracle, wrote |-> o.wrote, force |-> force,
                     captured |-> HasCapturedSummary(call.capturedSummaries,
                                                     call.path),
                     entry |-> call.path \in DOMAIN call.capturedSummaries,
                     marked |-> HasMarkerLine(call.path, call.fileContent),
                     usable |-> o.oracle /\ Usable(response),
                     writeFailed |-> o.oracle /\ o.step = 4 /\ ~writeOk
                                       /\ getFileEnding(call.path) \notin {".json"}
                                       /\ ~getSummaryFromAI(response).threw]
         /\ pc' = pcAfter(o.ret)
         /\ inflight' = Tail(inflight)
         /\ summaries' =
              IF o.ret = "result"
              THEN Append(summaries,
                          [filePath |-> call.path, summary |-> o.summary])
              ELSE summaries
  /\ UNCHANGED <<force, cacheFile, storageDir, ensureDirPending, projectFiles,
                 queue, files0>>

\* compileSummaries: the cache file is overwritten; the write fails when the
\* storage directory does not exist.
compileSummaries ==
  /\ pc = "loop"
  /\ queue = <<>>
  /\ inflight = <<>>
  /\ IF storageDir
     THEN /\ cacheFile' = [exists |-> TRUE, doc |-> summaryObject(summaries)]
          /\ pc' = "done"
     ELSE /\ pc' = "failed"
          /\ UNCHANGED cacheFile
  /\ UNCHANGED <<force, files, storageDir, ensureDirPending, projectFiles,
                 queue, inflight, summaries, files0, last>>

\* The process ends; the next run is one of a new process.
Exit ==
  /\ pc \in {"done", "failed"}
  /\ ~ensureDirPending
  /\ pc' = "idle"
  /\ UNCHANGED <<force, files, cacheFile, storageDir, ensureDirPending,
                 projectFiles, queue, inflight, summaries, files0, last>>

Next ==
  \/ \E options \in {"none", "force", "noforce"} : Constructor(options)
  \/ Run
  \/ EnsureDirDone
  \/ SummarizeBegin
  \/ \E response \in Responses, writeOk \in BOOLEAN :
       SummarizeNext(response, writeOk)
  \/ compileSummaries
  \/ Exit

Spec == Init /\ [][Next]_vars

\* ------------------------------------------------------------------ claims
Annotated == {p \in Paths : getComponents(p).header # Undefined}
Supported == {p \in Paths : getFileEnding(p) \in allowedExtensions}
Excluded == {p \in Paths : getFileEnding(p) \in {".json"}}

Count(lines, l) == Cardinality({i \in 1..Len(lines) : lines[i] = l})

\* The step is a call of summarizeFile on path p.
CallStep(p) ==
  /\ pc = "loop" /\ inflight # <<>> /\ Head(inflight).path = p
  /\ inflight' = Tail(inflight)

\* The summary the completed batch holds for path p.
BatchSummary(p) ==
  LET i == CHOOSE i \in 1..Len(summaries) : summaries[i].filePath = p
  IN  summaries[i].summary

\* C1: after a call that took step 4 on a file of a comment dialect, with a
\* summary from the Summarizer, and wrote it, extracting the block from the file gives back the summary the
\* Summarizer returned, line for line.
C1_RoundTrip ==
  \A p \in Annotated :
    (last.path = p /\ last.step = 4 /\ last.wrote /\ last.usable)
      => LET c == getComponents(p)
         IN  regexExtractSummary(p, files[p], c.header, c.footer, c.prefix)
               = last.summary

\* C2: with force disabled, when a call on a file with no marker line and no
\* cache entry has generated and written a summary, the next call on the same
\* file returns the same summary, calls no oracle and leaves the file as it is.
C2_Idempotence ==
  [][\A p \in Annotated :
       ( /\ last.path = p /\ last.ret = "result" /\ last.step = 4
         /\ ~last.force /\ ~last.marked /\ ~last.entry /\ last.usable
         /\ ~force /\ CallStep(p) )
         => ( /\ last'.ret = "result"
              /\ last'.summary = last.summary
              /\ ~last'.oracle
              /\ files' = files )]_vars

\* No line of the content is the header or the footer of the dialect of p.
NoMarkerLine(p, content) == ~HasMarkerLine(p, content)
\* No line of the content is the header or the footer once it is trimmed.
NoMarkerLineTrimmed(p, content) ==
  LET c == getComponents(p)
  IN  \A i \in 1..Len(content) :
        TrimLine(content[i]) # c.header /\ TrimLine(content[i]) # c.footer
AtMostOneBlock(p) ==
  LET c == getComponents(p)
  IN  Count(files[p], c.header) <= 1 /\ Count(files[p], c.footer) <= 1

\* C3 as stated: a file that started with no header line and no footer line
\* holds at most one header line and at most one footer line, whatever calls
\* were made on it (the latest with a summary from the Summarizer).
C3_AtMostOneBlock_AsStated ==
  \A p \in Annotated :
    (NoMarkerLine(p, files0[p]) /\ (last.oracle => last.usable))
      => AtMostOneBlock(p)

\* C3 as amended: a file that started with no line that is the header or the
\* footer once trimmed of surrounding white space holds at most one header
\* line and at most one footer line, whatever calls were made on it.
C3_AtMostOneBlock ==
  \A p \in Annotated : NoMarkerLineTrimmed(p, files0[p]) => AtMostOneBlock(p)

\* A forced call has just replaced the block an earlier call wrote.
C3_Witness ==
  \E p \in Annotated :
    /\ NoMarkerLineTrimmed(p, files0[p])
    /\ last.path = p /\ last.wrote /\ last.marked /\ last.force
    /\ Count(files[p], getComponents(p).header) = 1
    /\ Count(files[p], getComponents(p).footer) = 1

\* C4: when a file starts with an interpreter directive, after every call that
\* inserts a block its first line is still that line, unchanged, and its
\* second line is the header.
C4_ShebangPreserved ==
  \A p \in Annotated :
    (ShebangPattern(files0[p][1]) /\ last.path = p /\ last.wrote)
      => /\ Len(files[p]) >= 2
         /\ files[p][1] = files0[p][1]
         /\ files[p][2] = getComponents(p).header

\* A block has been inserted a second time under a directive that ends with
\* white space.
C4_Witness ==
  \E p \in Annotated :
    /\ ShebangPattern(files0[p][1]) /\ files0[p][1] # TrimLine(files0[p][1])
    /\ last.path = p /\ last.wrote /\ last.marked
    /\ files[p][1] = files0[p][1]

\* C5: the cache document compileSummaries has written maps every result's
\* path to the object {filePath, summary} of that result.
C5_CacheSchema ==
  pc = "done"
    => /\ DOMAIN cacheFile.doc = {summaries[i].filePath : i \in 1..Len(summaries)}
       /\ \A i \in 1..Len(summaries) :
            cacheFile.doc[summaries[i].filePath]
              = JObject(summaries[i].filePath, summaries[i].summary)

C7_EmbedExclusion ==
  \A p \in Excluded :
    /\ files[p] = files0[p]
    /\ last.path = p
         => /\ ~last.wrote
            /\ last.ret \in {"result", "throw"}
            /\ last.ret = "throw" => last.oracle
    /\ (pc = "done" /\ InList(p, projectFiles))
         => /\ p \in DOMAIN cacheFile.doc
            /\ cacheFile.doc[p].text = BatchSummary(p)

\* A forced call on a .json file has generated a summary and the batch has
\* been compiled.
C7_Witness ==
  \E p \in Excluded :
    /\ pc = "done" /\ last.path = p /\ last.step = 4 /\ last.force
    /\ last.oracle /\ cacheFile.doc[p].text = last.summary

\* C8: a call to which the Summarizer gives no usable content fails and writes
\* no file; no call returns the placeholder or an empty summary the
\* Summarizer was asked for.
C8_OracleFailureFails ==
  /\ (last.oracle /\ ~last.usable) => (last.ret = "throw" /\ ~last.wrote)
  /\ (last.oracle /\ last.ret = "result")
       => last.summary \notin {EmptyString, NoSummaryProvided}

\* C9: with force enabled, every call on a supported file calls the
\* Summarizer, and what it returns is what the Summarizer generated.
C9_ForceRegenerates ==
  \A p \in Supported :
    (last.path = p /\ last.force) => (last.oracle /\ last.step = 4)

\* C10: a call on a .json path whose entry of the cache document has a
\* summary that is not empty returns that summary, calls no oracle and writes
\* no file.
C10_CachedExcluded ==
  [][\A p \in Excluded :
       (CallStep(p) /\ cacheFile.exists /\ HasCapturedSummary(cacheFile.doc, p))
         => ( /\ last'.ret = "result"
              /\ last'.summary = cacheFile.doc[p].text
              /\ ~last'.oracle /\ ~last'.wrote
              /\ files' = files )]_vars

\* A call with force enabled has answered a .json path from the cache.
C10_Witness ==
  \E p \in Excluded :
    last.path = p /\ last.step = 2 /\ last.force /\ last.captured
      /\ last.summary # EmptyString

\* C11: a run that completes leaves an entry in the cache document for every
\* path that had one before the run.
C11_EntriesKept ==
  [][(pc = "loop" /\ pc' = "done" /\ cacheFile.exists)
       => DOMAIN cacheFile.doc \subseteq DOMAIN cacheFile'.doc]_vars

\* C12: a call of summarizeFile changes the content of no file but its own,
\* changes it only by its one write, writes only when it has called the
\* Summarizer, which it does in step 4 only, and leaves the cache file alone;
\* no other step changes a file.
C12_BoundedSideEffects ==
  [][/\ \A p \in Paths :
          CallStep(p)
            => /\ \A q \in Paths \ {p} : files'[q] = files[q]
               /\ files'[p] # files[p] => last'.wrote
               /\ last'.wrote => last'.oracle
               /\ last'.oracle => last'.step = 4
               /\ cacheFile' = cacheFile
     /\ files' # files => \E p \in Paths : CallStep(p)]_vars

\* A call has called the Summarizer and overwritten its file.
C12_Witness ==
  /\ last.path \in Annotated /\ last.step = 4 /\ last.oracle /\ last.wrote
  /\ files[last.path] # files0[last.path]

\* C13: a call whose write of the project file fails is rejected and ends the
\* run in failure; the cache file changes only when a run reaches its end in
\* compileSummaries, which a failed run never does: the entry of the file is
\* what it was before the run.
C13_WriteFailureKeepsCache ==
  [][/\ \A p \in Paths :
          (CallStep(p) /\ last'.writeFailed)
            => (last'.ret = "throw" /\ pc' = "failed" /\ cacheFile' = cacheFile)
     /\ cacheFile' # cacheFile => (pc = "loop" /\ pc' = "done")
     /\ pc = "failed" => pc' \in {"failed", "idle"}]_vars

\* A write has failed for a file that has an entry in the cache document, and
\* the run has failed.
C13_Witness ==
  /\ pc = "failed" /\ last.writeFailed /\ last.ret = "throw"
  /\ cacheFile.exists /\ last.path \in DOMAIN cacheFile.doc

\* C14: at most one call of summarizeFile is in flight; a call begins only
\* when none is in flight, on the next path in discovery order; a file is
\* written only by the call in flight, which is a call on that file; the
\* cache file is written only when every path has been visited and no call is
\* in flight.
C14_SequentialBatch ==
  [][/\ Len(inflight') <= 1
     /\ Len(inflight') > Len(inflight)
          => /\ inflight = <<>>
             /\ inflight'[1].path
                  = projectFiles[Len(projectFiles) - Len(queue) + 1]
     /\ \A p \in Paths :
          files'[p] # files[p] => (inflight # <<>> /\ Head(inflight).path = p)
     /\ cacheFile' # cacheFile => (queue = <<>> /\ inflight = <<>>)]_vars

\* The call on the second file is in flight after the call on the first file
\* has written it.
C14_Witness ==
  /\ Len(projectFiles) >= 2 /\ Len(inflight) = 1
  /\ inflight[1].path = projectFiles[2]
  /\ last.path = projectFiles[1] /\ last.wrote

\* C15: after a call that took step 4 with a summary from the Summarizer and
\* wrote the file, the lines between the header line and the footer line are
\* the lines of the summary, in order, each behind the prefix of the dialect.
C15_BlockBody ==
  \A p \in Annotated :
    (last.path = p /\ last.step = 4 /\ last.wrote /\ last.usable)
      => LET c == getComponents(p)
             h == IndexOf(files[p], c.header)
             f == IndexOf(files[p], c.footer)
         IN  /\ h # -1 /\ f > h
             /\ Slice(files[p], h + 1, f)
                  = [i \in 1..Len(last.summary) |-> c.prefix \o last.summary[i]]

C17_FailFast ==
  [][/\ \A p \in Paths :
          (CallStep(p) /\ last'.oracle /\ last'.ret = "throw"
             /\ ~last'.writeFailed)
            => /\ pc' = "failed"
               /\ files' = files /\ cacheFile' = cacheFile
               /\ queue' = queue /\ summaries' = summaries
     /\ pc = "failed"
          => /\ pc' \in {"failed", "idle"}
             /\ inflight' = inflight /\ queue' = queue /\ last' = last
             /\ files' = files /\ cacheFile' = cacheFile]_vars

\* The Summarizer call has failed for the first file of three and the two
\* after it are left unvisited.
C17_Witness ==
  /\ pc = "failed" /\ last.oracle /\ last.ret = "throw" /\ ~last.writeFailed
  /\ Len(projectFiles) = 3 /\ last.path = projectFiles[1]
  /\ Len(queue) = 2 /\ inflight = <<>> /\ summaries = <<>>

\* C18: the cache file compileSummaries has written is loaded with, for every
\* path of the batch that has a summary, an entry from which summarizeFile
\* reads that summary (an object with a summary property that is not empty).
C18_CacheRoundTrip ==
  pc = "done"
    => \A i \in 1..Len(summaries) :
         summaries[i].summary \notin {EmptyString, NoSummaryProvided}
           => LET doc == getExistingCapturedSummaries(cacheFile)
                  filePath == summaries[i].filePath
              IN  /\ HasCapturedSummary(doc, filePath)
                  /\ doc[filePath].text = BatchSummary(filePath)

\* C19: a call on a supported file that finds either no entry or an entry in
\* the schema returns a result unless it fails; the cache document of a
\* completed run has an entry for every discovered path.
C19_EveryFileYieldsResult ==
  /\ \A p \in Supported :
       (last.path = p /\ (last.entry => last.captured) /\ last.ret # "throw")
         => last.ret = "result"
  /\ pc = "done"
       => \A i \in 1..Len(projectFiles) : projectFiles[i] \in DOMAIN cacheFile.doc

\* C20: when run attempts the write of the cache file, the ensureDir call it
\* started has completed.
C20_DirBeforeCacheWrite ==
  [][(pc = "loop" /\ queue = <<>> /\ inflight = <<>>
        /\ pc' \in {"done", "failed"})
       => ~ensureDirPending]_vars

====
